---- MODULE Spec2Model ----
(***************************************************************************)
(* The per-request dispatch engine of tango's Context (context.go): lazy   *)
(* route resolution (newAction), the two-stage middleware chain (Next,     *)
(* invoke, execute), result capture and the Abort path.                    *)
(*                                                                         *)
(* Control is synchronous and recursive in the code: a handler that calls  *)
(* Next is suspended until the rest of the chain returns.  The model keeps *)
(* the suspended handlers on `stack`; the handler on top is the code that  *)
(* is running, and each action is one call it makes on the context.        *)
(***************************************************************************)
EXTENDS Integers, Sequences, FiniteSets, TLC

\* ---------------------------------------------------------------- bounds
MaxGlobal == 2      \* at most this many global handlers in tan.handlers
MaxCalls  == 2      \* context calls other than Next made during one request
MaxNext   == 3      \* calls of Next made during one request
TwoCalls  == 1      \* the same as MaxCalls, of each of two concurrent requests
TwoNexts  == 2      \* the same as MaxNext, of each of two concurrent requests

\* ------------------------------------------------------- value universe
NilRoute  == 0                          \* (*Route)(nil)
NilValue  == [type |-> "nil"]           \* interface{}(nil)
NilSlice  == [isNil |-> TRUE,  elems |-> <<>>]
Slice(s)  == [isNil |-> FALSE, elems |-> s]
NilReq    == [path |-> <<>>, method |-> ""]

StatusUnauthorized == 401
StatusNotFound     == 404

\* http.StatusText
StatusText(code) ==
    CASE code = StatusNotFound     -> "Not Found"
      [] code = StatusUnauthorized -> "Unauthorized"
      [] OTHER                     -> ""

\* Abort(status, body) of the result model, and StatusResult{code, result}
AbortResult(status, body) == [type |-> "Abort", Code |-> status, Content |-> body]
StatusResult(code, result) == [type |-> "StatusResult", Code |-> code, Result |-> result]

IntVal(n) == [type |-> "int", v |-> n]
StrVal(s) == [type |-> "string", v |-> s]

\* ------------------------------------------------------- the route table
SupportedTypes == {"StructPtrRoute", "StructRoute", "FuncRoute", "FuncHttpRoute",
                   "FuncReqRoute", "FuncResponseRoute", "FuncCtxRoute"}

\* The routes registered with the dispatcher.  pattern: the path, one
\* character per element, ":" standing for one captured character;
\* handlers: the route-local middleware; raw: the dynamic type of the
\* registered callable; out: the result types of route.method.
Routes == <<
    [pattern |-> <<"/">>, method |-> "GET", routeType |-> "StructRoute",
     raw |-> "struct", out |-> <<"string">>, handlers |-> <<>>],
    [pattern |-> <<"/", "s">>, method |-> "GET", routeType |-> "StructPtrRoute",
     raw |-> "struct", out |-> <<"int", "string">>, handlers |-> <<"l0">>],
    [pattern |-> <<"/", "n">>, method |-> "GET", routeType |-> "StructRoute",
     raw |-> "struct", out |-> <<>>, handlers |-> <<"l0", "l1">>],
    [pattern |-> <<"/", "t">>, method |-> "GET", routeType |-> "StructRoute",
     raw |-> "struct", out |-> <<"string", "string">>, handlers |-> <<>>],
    [pattern |-> <<"/", "3">>, method |-> "GET", routeType |-> "StructPtrRoute",
     raw |-> "struct", out |-> <<"int", "string", "string">>, handlers |-> <<>>],
    [pattern |-> <<"/", "f">>, method |-> "GET", routeType |-> "FuncRoute",
     raw |-> "func()", out |-> <<>>, handlers |-> <<>>],
    [pattern |-> <<"/", ":">>, method |-> "POST", routeType |-> "FuncCtxRoute",
     raw |-> "func(*Context)", out |-> <<>>, handlers |-> <<"l0">>],
    [pattern |-> <<"/", "h">>, method |-> "GET", routeType |-> "FuncHttpRoute",
     raw |-> "func(http.ResponseWriter, *http.Request)", out |-> <<>>, handlers |-> <<>>],
    [pattern |-> <<"/", "q">>, method |-> "GET", routeType |-> "FuncReqRoute",
     raw |-> "func(*http.Request)", out |-> <<>>, handlers |-> <<>>],
    [pattern |-> <<"/", "w">>, method |-> "GET", routeType |-> "FuncResponseRoute",
     raw |-> "func(http.ResponseWriter)", out |-> <<>>, handlers |-> <<>>],
    [pattern |-> <<"/", "u">>, method |-> "GET", routeType |-> "UnknownRoute",
     raw |-> "struct", out |-> <<>>, handlers |-> <<>>],
    [pattern |-> <<"/", "r">>, method |-> "GET", routeType |-> "FuncHttpRoute",
     raw |-> "func(*http.Request, http.ResponseWriter)", out |-> <<>>, handlers |-> <<>>]
>>

RouteIds == 1..Len(Routes)

\* The requests the transport hands to reset.
Requests ==
    { [path |-> p, method |-> "GET"] :
        p \in { <<"/">>, <<"/", "s">>, <<"/", "n">>, <<"/", "t">>, <<"/", "3">>,
                <<"/", "f">>, <<"/", "f", "/">>, <<"/", "h">>, <<"/", "q">>,
                <<"/", "w">>, <<"/", "u">>, <<"/", "r">>, <<"/", "z">> } }
    \cup { [path |-> p, method |-> "POST"] :
             p \in { <<"/", "a">>, <<"/", "b", "/", "/">> } }

\* Values a method of the given result types can return.
ValuesOf(t) == IF t = "int" THEN {IntVal(200), IntVal(404)} ELSE {StrVal("nope")}

AllValues == ValuesOf("int") \cup ValuesOf("string")

\* The return values of route.method.Call: one value per declared result.
Returns(out) ==
    { r \in [1..Len(out) -> AllValues] : \A i \in 1..Len(out) : r[i] \in ValuesOf(out[i]) }

\* ------------------------------------------------------------- variables
VARIABLES
    ctx,      \* the Context struct: tan, idx, req, ResponseWriter, route, params,
              \* callArgs, matched, stage, action, Result
    env,      \* what the collaborators have seen since the last reset:
              \* matchCalls (calls of tan.Match), nInst (instances made by
              \* route.newAction), errCount (calls of ErrHandler.Handle),
              \* errSeen (ctx.Result at the last of them)
    pc,       \* "idle" | "reset" | "handler" | "execute" | "done" | "panicked"
    stack,    \* the handlers entered and not yet returned, innermost last;
              \* nexts: its calls of Next, aborted: it called Abort(401, "x")
    log,      \* the handlers invoked since the last reset, in order, each with
              \* the stage and the number of execute passes at its invocation
    calls,    \* context calls other than Next since the last reset
    nexts,    \* calls of Next since the last reset
    lastCall, \* the last accessor or abort call a handler made, and its result
    hist,     \* the history of the request: aborts (Abort, NotFound and
              \* Unauthorized calls made by handlers), renext (a handler called
              \* Next twice), anext (the calls of Next by the action), halted (the
              \* global link that called Abort(401, "x") and returned
              \* without Next, or -1), execs
              \* (passes through execute), firstExec (was the response written
              \* at the first pass), ret (what the action last returned),
              \* reused (the reset just made found a resolved, aborted context)
    peer      \* a second context on the same dispatcher, suspended while
              \* this one runs: me (its number, 0 when there is none) and
              \* its ctx, env, pc, stack, log, calls, nexts, lastCall, hist

vars == <<ctx, env, pc, stack, log, calls, nexts, lastCall, hist, peer>>

\* ------------------------------------------------- external collaborators

RECURSIVE TrimRight(_)
TrimRight(p) ==
    IF p # <<>> /\ p[Len(p)] = "/" THEN TrimRight(SubSeq(p, 1, Len(p) - 1)) ELSE p

\* removeStick: drops the trailing slashes of a path; the root stays "/".
removeStick(uri) ==
    LET t == TrimRight(uri) IN IF t = <<>> THEN <<"/">> ELSE t

Matches(pat, p) ==
    /\ Len(pat) = Len(p)
    /\ \A i \in 1..Len(pat) : IF pat[i] = ":" THEN p[i] # "/" ELSE pat[i] = p[i]

RECURSIVE Captures(_, _)
Captures(pat, p) ==
    IF pat = <<>> THEN <<>>
    ELSE (IF pat[1] = ":" THEN <<p[1]>> ELSE <<>>) \o Captures(Tail(pat), Tail(p))

\* tan.Match(reqPath, method): the first registered route of that method
\* whose pattern matches, with the captured parameters; (nil, nil) if none.
Match(reqPath, method) ==
    LET hits == { r \in RouteIds : Routes[r].method = method /\ Matches(Routes[r].pattern, reqPath) }
    IN IF hits = {} THEN [route |-> NilRoute, params |-> <<>>]
       ELSE LET r == CHOOSE x \in hits : \A y \in hits : x <= y
            IN [route |-> r, params |-> Captures(Routes[r].pattern, reqPath)]

\* route.newAction(): a fresh action instance of route r, the n-th made.
Instance(r, n) == [type |-> "action", route |-> r, id |-> n]

\* ResponseWriter.Written()
Written(c) == c.ResponseWriter.written

\* ResponseWriter.Write / WriteHeader
Write(c) == [c EXCEPT !.ResponseWriter.written = TRUE]

\* tan.ErrHandler.Handle(ctx): renders ctx.Result into the response.
ErrHandle(c, e) ==
    [c |-> Write(c), e |-> [e EXCEPT !.errCount = @ + 1, !.errSeen = c.Result]]

\* ------------------------------------------------------------ context.go

\* reset that leaves ctx.matched as it was
resetKeepsMatched(c, rq, resp) ==
    [c EXCEPT !.req = rq, !.ResponseWriter = resp, !.idx = 0, !.stage = 0,
              !.route = NilRoute, !.params = <<>>, !.callArgs = NilSlice,
              !.action = NilValue, !.Result = NilValue]

\* reset that leaves ctx.stage as it was
resetKeepsStage(c, rq, resp) ==
    [c EXCEPT !.req = rq, !.ResponseWriter = resp, !.idx = 0,
              !.route = NilRoute, !.params = <<>>, !.callArgs = NilSlice,
              !.matched = FALSE, !.action = NilValue, !.Result = NilValue]

\* Context.reset
reset(c, rq, resp) ==
    [c EXCEPT !.req = rq, !.ResponseWriter = resp, !.idx = 0, !.stage = 0,
              !.route = NilRoute, !.params = <<>>, !.callArgs = NilSlice,
              !.matched = FALSE, !.action = NilValue, !.Result = NilValue]

\* Context.HandleError
HandleError(c, e) == ErrHandle(c, e)

\* CallArgsFor with the two arguments of a FuncHttpRoute in the other order
CallArgsForSwapped(rt, vc, c) ==
    CASE rt = "StructPtrRoute"    -> Slice(<<[value |-> "Elem", of |-> vc]>>)
      [] rt = "StructRoute"       -> Slice(<<[value |-> "Value", of |-> vc]>>)
      [] rt = "FuncRoute"         -> Slice(<<>>)
      [] rt = "FuncHttpRoute"     -> Slice(<<[value |-> "Request", of |-> c.req], [value |-> "ResponseWriter"]>>)
      [] rt = "FuncReqRoute"      -> Slice(<<[value |-> "Request", of |-> c.req]>>)
      [] rt = "FuncResponseRoute" -> Slice(<<[value |-> "ResponseWriter"]>>)
      [] rt = "FuncCtxRoute"      -> Slice(<<[value |-> "Context"]>>)

\* the switch on ctx.route.routeType in newAction; vc is the new instance
\* (a pointer to it): vc.Elem() is the instance itself, passed by value,
\* vc the reference to it.
CallArgsFor(rt, vc, c) ==
    CASE rt = "StructPtrRoute"    -> Slice(<<[value |-> "Elem", of |-> vc]>>)
      [] rt = "StructRoute"       -> Slice(<<[value |-> "Value", of |-> vc]>>)
      [] rt = "FuncRoute"         -> Slice(<<>>)
      [] rt = "FuncHttpRoute"     -> Slice(<<[value |-> "ResponseWriter"], [value |-> "Request", of |-> c.req]>>)
      [] rt = "FuncReqRoute"      -> Slice(<<[value |-> "Request", of |-> c.req]>>)
      [] rt = "FuncResponseRoute" -> Slice(<<[value |-> "ResponseWriter"]>>)
      [] rt = "FuncCtxRoute"      -> Slice(<<[value |-> "Context"]>>)

\* newActionFound that takes a route of an unknown type for a FuncRoute
newActionFoundGuessing(c, e, vc) ==
    [c |-> [c EXCEPT !.action = vc,
                     !.callArgs = IF Routes[c.route].routeType \in SupportedTypes
                                  THEN CallArgsFor(Routes[c.route].routeType, vc, c)
                                  ELSE Slice(<<>>),
                     !.matched = TRUE],
     e |-> [e EXCEPT !.nInst = @ + 1], panic |-> FALSE]

\* Context.newAction once the route is found: the new instance vc becomes
\* the action and the call arguments follow from the route type.  panic:
\* the default case of the switch was taken.
newActionFound(c, e, vc) ==
    IF Routes[c.route].routeType \in SupportedTypes
    THEN [c |-> [c EXCEPT !.action = vc,
                          !.callArgs = CallArgsFor(Routes[c.route].routeType, vc, c),
                          !.matched = TRUE],
          e |-> [e EXCEPT !.nInst = @ + 1], panic |-> FALSE]
    ELSE [c |-> [c EXCEPT !.action = vc], e |-> [e EXCEPT !.nInst = @ + 1], panic |-> TRUE]

\* newActionWith with ctx.matched = true moved inside the route != nil block
newActionWithUnmarked(c, e, m) ==
    IF m.route # NilRoute
    THEN newActionFound([c EXCEPT !.route = m.route, !.params = m.params],
                        [e EXCEPT !.matchCalls = @ + 1],
                        Instance(m.route, e.nInst + 1))
    ELSE [c |-> [c EXCEPT !.route = m.route, !.params = m.params],
          e |-> [e EXCEPT !.matchCalls = @ + 1], panic |-> FALSE]

\* Context.newAction with m, the result of tan.Match.
newActionWith(c, e, m) ==
    IF m.route # NilRoute
    THEN newActionFound([c EXCEPT !.route = m.route, !.params = m.params],
                        [e EXCEPT !.matchCalls = @ + 1],
                        Instance(m.route, e.nInst + 1))
    ELSE [c |-> [c EXCEPT !.route = m.route, !.params = m.params, !.matched = TRUE],
          e |-> [e EXCEPT !.matchCalls = @ + 1], panic |-> FALSE]

\* newAction without the test of ctx.matched
newActionRematch(c, e) ==
    newActionWith(c, e, Match(removeStick(c.req.path), c.req.method))

\* Context.newAction
newAction(c, e) ==
    IF ~c.matched
    THEN newActionWith(c, e, Match(removeStick(c.req.path), c.req.method))
    ELSE [c |-> c, e |-> e, panic |-> FALSE]

\* Abort that sets Result and does not call HandleError
AbortSilent(c, e, status, body) ==
    [c |-> [c EXCEPT !.Result = AbortResult(status, body)], e |-> e]

\* Abort that calls HandleError before it sets Result
AbortLate(c, e, status, body) ==
    [c |-> [HandleError(c, e).c EXCEPT !.Result = AbortResult(status, body)],
     e |-> HandleError(c, e).e]

\* Abort that also ends the chain: no stage is left for invoke to run
AbortHalting(c, e, status, body) ==
    HandleError([c EXCEPT !.Result = AbortResult(status, body), !.stage = 2], e)

\* Context.Abort
Abort(c, e, status, body) ==
    HandleError([c EXCEPT !.Result = AbortResult(status, body)], e)

\* Context.NotFound(message...)
NotFound(c, e, message) ==
    IF Len(message) = 0
    THEN Abort(c, e, StatusNotFound, StatusText(StatusNotFound))
    ELSE Abort(c, e, StatusNotFound, message[1])

\* Context.Unauthorized
Unauthorized(c, e) ==
    Abort(c, e, StatusUnauthorized, StatusText(StatusUnauthorized))

\* Where control goes when a call of the chain ends.
CallHandler(kind, i) == [to |-> "call", kind |-> kind, i |-> i]
GoExecute == [to |-> "execute"]
GoReturn  == [to |-> "return"]
GoPanic   == [to |-> "panic"]

\* invoke that returns when idx is beyond the end of the stage's handlers
invokeStrict(c) ==
    IF c.stage = 0
    THEN IF c.idx < Len(c.tan.handlers) THEN CallHandler("global", c.idx)
         ELSE IF c.idx = Len(c.tan.handlers) THEN GoExecute ELSE GoReturn
    ELSE IF c.stage = 1
         THEN IF c.route = NilRoute THEN GoPanic
              ELSE IF c.idx < Len(Routes[c.route].handlers)
                   THEN CallHandler("local", c.idx)
                   ELSE IF c.idx = Len(Routes[c.route].handlers)
                        THEN GoExecute ELSE GoReturn
         ELSE GoReturn

\* Context.invoke: a handler of the current stage, or execute; a nil route
\* in stage 1 is a nil dereference.
invoke(c) ==
    IF c.stage = 0
    THEN IF c.idx < Len(c.tan.handlers) THEN CallHandler("global", c.idx) ELSE GoExecute
    ELSE IF c.stage = 1
         THEN IF c.route = NilRoute THEN GoPanic
              ELSE IF c.idx < Len(Routes[c.route].handlers)
                   THEN CallHandler("local", c.idx)
                   ELSE GoExecute
         ELSE GoReturn

\* executeUnmatched without the test of Written
executeUnmatchedAlways(c, e) ==
    [c |-> NotFound(c, e, <<>>).c, e |-> NotFound(c, e, <<>>).e, ctl |-> GoReturn]

\* executeUnmatched with the test of Written inverted
executeUnmatchedInverted(c, e) ==
    IF Written(c)
    THEN [c |-> NotFound(c, e, <<>>).c, e |-> NotFound(c, e, <<>>).e, ctl |-> GoReturn]
    ELSE [c |-> c, e |-> e, ctl |-> GoReturn]

\* Context.execute, the not-found branch.
executeUnmatched(c, e) ==
    IF ~Written(c)
    THEN [c |-> NotFound(c, e, <<>>).c, e |-> NotFound(c, e, <<>>).e, ctl |-> GoReturn]
    ELSE [c |-> c, e |-> e, ctl |-> GoReturn]

\* Context.execute, the move to the route's own handlers: c is the context
\* with idx and stage set, and invoke is called on it.
executeStage(c, e) == [c |-> c, e |-> e, ctl |-> invoke(c)]

\* executeMatched without the test of ctx.stage
executeMatchedRestaging(c, e) ==
    IF Len(Routes[c.route].handlers) > 0
    THEN executeStage([c EXCEPT !.idx = 0, !.stage = 1], e)
    ELSE [c |-> c, e |-> e, ctl |-> CallHandler("action", 0)]

\* executeMatched that never enters the route's own handlers
executeMatchedSkipping(c, e) == [c |-> c, e |-> e, ctl |-> CallHandler("action", 0)]

\* Context.execute, the matched branch up to the call of the action.
executeMatched(c, e) ==
    IF Len(Routes[c.route].handlers) > 0 /\ c.stage = 0
    THEN executeStage([c EXCEPT !.idx = 0, !.stage = 1], e)
    ELSE [c |-> c, e |-> e, ctl |-> CallHandler("action", 0)]

\* Context.execute after its call of newAction, which gave r.
executeAfter(r) ==
    IF r.panic THEN [c |-> r.c, e |-> r.e, ctl |-> GoPanic]
    ELSE IF r.c.action # NilValue
         THEN executeMatched(r.c, r.e)
         ELSE executeUnmatched(r.c, r.e)

\* Context.execute up to the call of the action (or to its return when no
\* action is called).
execute(c, e) == executeAfter(newAction(c, e))

\* The type switch on ctx.route.raw: the callables execute calls directly.
DirectCallable ==
    {"func(*Context)", "func(*http.Request, http.ResponseWriter)", "func()",
     "func(*http.Request)", "func(http.ResponseWriter)"}

\* What execute gets back from the action of route r: nothing from a
\* direct call, the method's return values from route.method.Call.
ActionReturns(r) ==
    IF Routes[r].raw \in DirectCallable THEN {<<>>} ELSE Returns(Routes[r].out)

\* capture that keeps the first value of a return it has no shape for
captureLenient(c, ret) ==
    IF Len(ret) = 1 THEN [c EXCEPT !.Result = ret[1]]
    ELSE IF Len(ret) = 2 /\ ret[1].type = "int"
         THEN [c EXCEPT !.Result = StatusResult(ret[1].v, ret[2])]
         ELSE IF Len(ret) >= 2 THEN [c EXCEPT !.Result = ret[1]] ELSE c

\* capture that clears Result when the action returned nothing
captureClearing(c, ret) ==
    IF Len(ret) = 1 THEN [c EXCEPT !.Result = ret[1]]
    ELSE IF Len(ret) = 2
         THEN IF ret[1].type = "int"
              THEN [c EXCEPT !.Result = StatusResult(ret[1].v, ret[2])]
              ELSE c
         ELSE [c EXCEPT !.Result = NilValue]

\* capture that takes the first value of any non-empty return
captureFirst(c, ret) ==
    IF Len(ret) >= 1 THEN [c EXCEPT !.Result = ret[1]] ELSE c

\* Context.execute after the action returned ret: the capture of the result.
capture(c, ret) ==
    IF Len(ret) = 1 THEN [c EXCEPT !.Result = ret[1]]
    ELSE IF Len(ret) = 2
         THEN IF ret[1].type = "int"
              THEN [c EXCEPT !.Result = StatusResult(ret[1].v, ret[2])]
              ELSE c
         ELSE c

\* Next that does not advance idx
CtxNextStaying(c) == [c |-> c, ctl |-> invoke(c)]

\* Next that takes the handler it leaves out of the dispatcher's list
CtxNextConsuming(c) ==
    [c |-> [c EXCEPT !.idx = @ + 1,
                     !.tan.handlers = SubSeq(@, 1, Len(@) - 1)],
     ctl |-> invoke([c EXCEPT !.idx = @ + 1])]

\* Context.Next
CtxNext(c) == [c |-> [c EXCEPT !.idx = @ + 1], ctl |-> invoke([c EXCEPT !.idx = @ + 1])]

\* ---------------------------------------------------------- the machine

Top == stack[Len(stack)]

\* The running handler holds the context: every middleware does, and so
\* does an action that is a struct or a func(*Context).
HasContext ==
    /\ pc = "handler"
    /\ IF Top.kind \in {"global", "local"} THEN TRUE
       ELSE Routes[ctx.route].raw \in {"struct", "func(*Context)"}

\* The running handler can write the response.
HasWriter ==
    /\ pc = "handler"
    /\ IF HasContext THEN TRUE
       ELSE Routes[ctx.route].raw \in {"func(http.ResponseWriter)",
                                       "func(http.ResponseWriter, *http.Request)",
                                       "func(*http.Request, http.ResponseWriter)"}

Frame(ctl) == [kind |-> ctl.kind, i |-> ctl.i, nexts |-> 0, aborted |-> FALSE]
Event(ctl, c, h) == [kind |-> ctl.kind, i |-> ctl.i, stage |-> c.stage, pass |-> h.execs]

\* Control passes on as ctl says: c is the context and h the history after
\* the step, below the stack the new handler is entered on.
Transfer(ctl, c, h, below) ==
    CASE ctl.to = "call" ->
            /\ pc' = "handler"
            /\ stack' = Append(below, Frame(ctl))
            /\ log' = Append(log, Event(ctl, c, h))
      [] ctl.to = "execute" ->
            /\ pc' = "execute"
            /\ stack' = below
            /\ UNCHANGED log
      [] ctl.to = "return" ->
            /\ pc' = IF below = <<>> THEN "done" ELSE "handler"
            /\ stack' = below
            /\ UNCHANGED log
      [] ctl.to = "panic" ->
            /\ pc' = "panicked"
            /\ stack' = <<>>
            /\ UNCHANGED log

NoEnv  == [matchCalls |-> 0, nInst |-> 0, errCount |-> 0, errSeen |-> NilValue]
NoCall == [op |-> "", args |-> <<>>, value |-> NilValue]
NoPeer == [me |-> 0]
NoHist == [aborts |-> 0, renext |-> FALSE, anext |-> 0, halted |-> -1,
           execs |-> 0, firstExec |-> "", ret |-> <<>>, reused |-> FALSE]

Init ==
    /\ \E n \in 0..MaxGlobal :
         ctx = [tan |-> [handlers |-> [i \in 1..n |-> i - 1]],
                idx |-> 0, req |-> NilReq, ResponseWriter |-> [written |-> FALSE],
                route |-> NilRoute, params |-> <<>>, callArgs |-> NilSlice,
                matched |-> FALSE, stage |-> 0, action |-> NilValue, Result |-> NilValue]
    /\ env = NoEnv
    /\ pc = "idle"
    /\ stack = <<>>
    /\ log = <<>>
    /\ calls = 0
    /\ nexts = 0
    /\ lastCall = NoCall
    /\ hist = NoHist
    /\ peer = NoPeer

\* The context holds everything a request can leave behind.
Used ==
    /\ ctx.matched /\ ctx.route # NilRoute /\ ctx.action # NilValue
    /\ ctx.params # <<>> /\ ctx.callArgs # NilSlice
    /\ ctx.stage = 1 /\ ctx.idx > 0 /\ ctx.Result # NilValue

\* The transport takes the context for a request: ctx.reset(req, resp) with
\* a response nothing has been written to.
Reset ==
    /\ pc \in {"idle", "done"}
    /\ \E rq \in Requests : ctx' = reset(ctx, rq, [written |-> FALSE])
    /\ env' = NoEnv
    /\ pc' = "reset"
    /\ stack' = <<>>
    /\ log' = <<>>
    /\ calls' = 0
    /\ nexts' = 0
    /\ lastCall' = NoCall
    /\ hist' = [NoHist EXCEPT !.reused = Used]
    /\ UNCHANGED peer

\* The transport's one call of ctx.invoke() that starts the chain.
Start ==
    /\ pc = "reset"
    /\ Transfer(invoke(ctx), ctx, hist, stack)
    /\ hist' = [hist EXCEPT !.reused = FALSE]
    /\ UNCHANGED <<ctx, env, calls, nexts, lastCall, peer>>

\* invoke found the stage exhausted: ctx.execute().
Execute ==
    /\ pc = "execute"
    /\ hist' = [hist EXCEPT !.execs = @ + 1,
                            !.firstExec = IF @ # "" THEN @
                                          ELSE IF Written(ctx) THEN "written" ELSE "unwritten"]
    /\ LET r == execute(ctx, env)
       IN /\ ctx' = r.c
          /\ env' = r.e
          /\ Transfer(r.ctl, r.c, hist', stack)
    /\ UNCHANGED <<calls, nexts, lastCall, peer>>

\* A call of Route(), Params() or Action() by the running handler.
Accessor(op) ==
    /\ HasContext
    /\ calls < MaxCalls
    /\ LET r == newAction(ctx, env)
       IN /\ ctx' = r.c
          /\ env' = r.e
          /\ IF r.panic
             THEN /\ Transfer(GoPanic, r.c, hist, stack)
                  /\ UNCHANGED lastCall
             ELSE /\ lastCall' = [op |-> op, args |-> <<>>,
                                  value |-> CASE op = "Route"  -> r.c.route
                                              [] op = "Params" -> r.c.params
                                              [] op = "Action" -> r.c.action]
                  /\ UNCHANGED <<pc, stack, log>>
    /\ calls' = calls + 1
    /\ UNCHANGED <<nexts, hist, peer>>

\* Context.Route
CallRoute  == Accessor("Route")
\* Context.Params
CallParams == Accessor("Params")
\* Context.Action
CallAction == Accessor("Action")

\* The running handler calls Abort, NotFound or Unauthorized, which gives r.
Aborting(op, args, r) ==
    /\ HasContext
    /\ calls < MaxCalls
    /\ ctx' = r.c
    /\ env' = r.e
    /\ calls' = calls + 1
    /\ lastCall' = [op |-> op, args |-> args, value |-> NilValue]
    /\ hist' = [hist EXCEPT !.aborts = @ + 1]
    /\ stack' = [stack EXCEPT ![Len(stack)].aborted =
                    IF op = "Abort" /\ args = <<StatusUnauthorized, "x">> THEN TRUE ELSE @]
    /\ UNCHANGED <<pc, log, nexts, peer>>

\* The arguments the handlers call Abort with.
AbortArgs == {<<StatusUnauthorized, "x">>}

CallAbort ==
    \E a \in AbortArgs : Aborting("Abort", a, Abort(ctx, env, a[1], a[2]))

CallNotFound ==
    \E message \in {<<>>, <<"gone">>} : Aborting("NotFound", message, NotFound(ctx, env, message))

CallUnauthorized == Aborting("Unauthorized", <<>>, Unauthorized(ctx, env))

\* The running handler writes to the response.
CallWrite ==
    /\ HasWriter
    /\ calls < MaxCalls
    /\ ctx' = Write(ctx)
    /\ calls' = calls + 1
    /\ UNCHANGED <<env, pc, stack, log, nexts, lastCall, hist, peer>>

\* The running handler calls ctx.Next().
CallNext ==
    /\ HasContext
    /\ nexts < MaxNext
    /\ LET r == CtxNext(ctx)
       IN /\ ctx' = r.c
          /\ Transfer(r.ctl, r.c, hist, [stack EXCEPT ![Len(stack)].nexts = @ + 1])
    /\ nexts' = nexts + 1
    /\ hist' = [hist EXCEPT !.renext = @ \/ Top.nexts >= 1,
                            !.anext = IF Top.kind = "action" THEN @ + 1 ELSE @]
    /\ UNCHANGED <<env, calls, lastCall, peer>>

\* The running handler returns.  When it is the action, execute resumes
\* with the values it returned and captures them.
Return ==
    /\ pc = "handler"
    /\ IF Top.kind = "action"
       THEN \E ret \in ActionReturns(ctx.route) :
                /\ ctx' = capture(ctx, ret)
                /\ hist' = [hist EXCEPT !.ret = ret]
       ELSE /\ UNCHANGED ctx
            /\ hist' = [hist EXCEPT !.halted =
                           IF Top.kind = "global" /\ Top.nexts = 0 /\ Top.aborted
                           THEN Top.i ELSE @]
    /\ stack' = SubSeq(stack, 1, Len(stack) - 1)
    /\ pc' = IF Len(stack) = 1 THEN "done" ELSE "handler"
    /\ UNCHANGED <<env, log, calls, nexts, lastCall, peer>>

Next ==
    \/ Reset
    \/ Start
    \/ Execute
    \/ CallRoute
    \/ CallParams
    \/ CallAction
    \/ CallAbort
    \/ CallNotFound
    \/ CallUnauthorized
    \/ CallWrite
    \/ CallNext
    \/ Return

Spec == Init /\ [][Next]_vars

\* ------------------------------------------------- two contexts at once
\* Two contexts of one dispatcher serve one request each, their steps
\* interleaved in every order.  The variables above are the context that
\* takes the next step; peer holds the other one.  ctx.tan is a pointer to
\* the one dispatcher: what a step leaves in it is what the other context
\* finds.

\* The requests the two contexts are reset with: the first serves a
\* request for the route "/s", the second one that matches no route.
TwoRequests ==
    << [path |-> <<"/", "s">>, method |-> "GET"],
       [path |-> <<"/", "z">>, method |-> "GET"] >>

\* The number of the running context.
Me == 3 - peer.me

\* The running context as peer holds a suspended one.
Suspended(n) ==
    [me |-> n, ctx |-> ctx, env |-> env, pc |-> pc, stack |-> stack, log |-> log,
     calls |-> calls, nexts |-> nexts, lastCall |-> lastCall, hist |-> hist]

\* Both contexts new, on a dispatcher with one global handler.
InitTwo ==
    /\ ctx = [tan |-> [handlers |-> <<0>>],
              idx |-> 0, req |-> NilReq, ResponseWriter |-> [written |-> FALSE],
              route |-> NilRoute, params |-> <<>>, callArgs |-> NilSlice,
              matched |-> FALSE, stage |-> 0, action |-> NilValue, Result |-> NilValue]
    /\ env = NoEnv
    /\ pc = "idle"
    /\ stack = <<>>
    /\ log = <<>>
    /\ calls = 0
    /\ nexts = 0
    /\ lastCall = NoCall
    /\ hist = NoHist
    /\ peer = Suspended(2)

\* The scheduler suspends the running context and resumes the other, which
\* finds the dispatcher as the running one left it.
Switch ==
    /\ peer.me # 0
    /\ ctx' = [peer.ctx EXCEPT !.tan = ctx.tan]
    /\ env' = peer.env
    /\ pc' = peer.pc
    /\ stack' = peer.stack
    /\ log' = peer.log
    /\ calls' = peer.calls
    /\ nexts' = peer.nexts
    /\ lastCall' = peer.lastCall
    /\ hist' = peer.hist
    /\ peer' = Suspended(3 - peer.me)

\* The transport takes the running context for its one request.
ResetOnce ==
    /\ pc = "idle"
    /\ ctx' = reset(ctx, TwoRequests[Me], [written |-> FALSE])
    /\ env' = NoEnv
    /\ pc' = "reset"
    /\ stack' = <<>>
    /\ log' = <<>>
    /\ calls' = 0
    /\ nexts' = 0
    /\ lastCall' = NoCall
    /\ hist' = NoHist
    /\ UNCHANGED peer

\* The calls the handlers of the two requests make: Route(), Abort and
\* Next.
TwoRoute == calls < TwoCalls /\ CallRoute
TwoAbort == calls < TwoCalls /\ CallAbort
TwoNext  == nexts < TwoNexts /\ CallNext

NextTwo ==
    \/ Switch
    \/ ResetOnce
    \/ Start
    \/ Execute
    \/ TwoRoute
    \/ TwoAbort
    \/ TwoNext
    \/ Return

SpecTwo == InitTwo /\ [][NextTwo]_vars

\* ------------------------------------------------------------ properties

InRequest == pc \in {"reset", "handler", "execute", "done"}

\* The route and parameters tan.Match gives for the request of the context.
OwnMatch == Match(removeStick(ctx.req.path), ctx.req.method)

Accessors == {"Route", "Params", "Action"}

\* The field an accessor returns.
Cached(op) ==
    CASE op = "Route"  -> ctx.route
      [] op = "Params" -> ctx.params
      [] op = "Action" -> ctx.action

\* C1: between one reset and the next tan.Match is called at most once,
\* whatever calls of Route(), Params(), Action() and passes through execute
\* are made: the context is matched exactly when the one call was made, and
\* what an accessor returned is the cached field.
MatchAtMostOnce ==
    /\ env.matchCalls <= 1
    /\ ctx.matched => env.matchCalls = 1
    /\ (~ctx.matched /\ pc # "panicked") => env.matchCalls = 0
    /\ lastCall.op \in Accessors => lastCall.value = Cached(lastCall.op)

\* C1 witness: two accessor calls and two passes through execute, one match.
MatchedOnceWitness ==
    /\ env.matchCalls = 1
    /\ calls >= 2 /\ hist.aborts = 0 /\ lastCall.op = "Params"
    /\ hist.execs >= 2

Resolution(c) == <<c.route, c.params, c.action, c.callArgs>>

\* C2: newAction run again after it has run gives the same route, params,
\* action and callArgs (and calls neither Match nor route.newAction again);
\* when no route matched, route and action are nil, no call arguments are
\* built, and Route() and Action() return nil from then on.
ResolutionIdempotent ==
    InRequest =>
        /\ ~newAction(ctx, env).panic =>
              /\ newAction(newAction(ctx, env).c, newAction(ctx, env).e) = newAction(ctx, env)
              /\ newAction(ctx, env).c.matched
              /\ newAction(ctx, env).c.route = NilRoute =>
                    Resolution(newAction(ctx, env).c) = <<NilRoute, <<>>, NilValue, NilSlice>>
        /\ ctx.matched => Resolution(newAction(ctx, env).c) = Resolution(ctx)
        /\ (OwnMatch.route = NilRoute /\ lastCall.op = "Route") => lastCall.value = NilRoute
        /\ (OwnMatch.route = NilRoute /\ lastCall.op = "Action") => lastCall.value = NilValue

\* C2 witness: an unmatched request queried twice and taken through execute.
UnmatchedTwiceWitness ==
    /\ ctx.matched /\ ctx.route = NilRoute
    /\ calls >= 2 /\ hist.aborts = 0 /\ lastCall.op = "Action"
    /\ hist.execs >= 1

NGlobal == Len(ctx.tan.handlers)
NLocal  == IF ctx.route = NilRoute THEN 0 ELSE Len(Routes[ctx.route].handlers)

Invoked(kind, i, before) ==
    \E j \in 1..(before - 1) : log[j].kind = kind /\ log[j].i = i

\* C3: a route-local handler is invoked only after every global handler has
\* been, and the action only after every route-local handler of the route
\* has been; no global handler is invoked after a route-local one or after
\* the action, no route-local one after the action; the action is invoked
\* in stage 0 exactly when the route has no handlers of its own, and then
\* already the first pass through execute invokes it.
StagesInOrder ==
    \A k \in 1..Len(log) :
        /\ log[k].kind = "global" =>
              /\ log[k].stage = 0
              /\ \A j \in 1..(k - 1) : log[j].kind = "global" /\ log[j].i < log[k].i
        /\ log[k].kind = "local" =>
              /\ log[k].stage = 1
              /\ \A g \in 0..(NGlobal - 1) : Invoked("global", g, k)
              /\ \A j \in 1..(k - 1) : log[j].kind # "action"
        /\ log[k].kind = "action" =>
              /\ \A g \in 0..(NGlobal - 1) : Invoked("global", g, k)
              /\ \A l \in 0..(NLocal - 1) : Invoked("local", l, k)
              /\ log[k].stage = 0 <=> NLocal = 0
              /\ (NLocal = 0 /\ ~Invoked("action", 0, k)) => log[k].pass = 1

\* C3 witness: both global handlers, the route's handler and then the action.
StagesWitness ==
    /\ Len(log) = 4
    /\ log[1].kind = "global" /\ log[2].kind = "global"
    /\ log[3].kind = "local" /\ log[4].kind = "action"

Abort401x    == [type |-> "Abort", Code |-> 401, Content |-> "x"]
Abort404     == [type |-> "Abort", Code |-> 404, Content |-> "Not Found"]

NotFoundOnce ==
    (InRequest /\ OwnMatch.route = NilRoute /\ hist.firstExec = "unwritten") =>
        /\ env.errCount - hist.aborts = 1
        /\ hist.aborts = 0 =>
              /\ env.errCount = 1
              /\ env.errSeen = Abort404
              /\ ctx.Result = Abort404

\* C5 witness: an unmatched request over, execute entered twice.
NotFoundWitness ==
    /\ pc = "done" /\ OwnMatch.route = NilRoute /\ hist.firstExec = "unwritten"
    /\ hist.aborts = 0 /\ hist.execs >= 2

\* C6: a pass through execute of a request that matches no route, with the
\* response already written, calls neither Abort nor the error handler and
\* leaves Result, stage and idx as they were; no handler is invoked.
WrittenUnmatchedNoop ==
    [][(pc = "execute" /\ Written(ctx) /\ OwnMatch.route = NilRoute) =>
          /\ ctx'.Result = ctx.Result
          /\ ctx'.stage = ctx.stage
          /\ ctx'.idx = ctx.idx
          /\ env'.errCount = env.errCount
          /\ env'.errSeen = env.errSeen
          /\ log' = log
          /\ pc' \in {"handler", "done"}]_vars

\* C6 witness: a handler wrote, the chain went through execute, nothing
\* was aborted.
WrittenUnmatchedWitness ==
    /\ OwnMatch.route = NilRoute /\ hist.firstExec = "written"
    /\ hist.aborts = 0 /\ env.errCount = 0 /\ ctx.Result = NilValue
    /\ ctx.matched /\ pc \in {"handler", "done"}

\* The step in which the action of a struct route returns to execute.
StructActionReturns ==
    /\ pc = "handler" /\ Top.kind = "action"
    /\ Routes[ctx.route].routeType \in {"StructRoute", "StructPtrRoute"}
    /\ Len(stack') = Len(stack) - 1
    /\ pc' # "panicked"

\* C7: when the method of a struct or struct-pointer action returns, no
\* return value leaves Result as it was (nil unless something was aborted),
\* one return value v makes Result v, and two return values (c, p) with c
\* an int make Result StatusResult{c, p}; nothing else of the context
\* changes.
ReturnCaptured ==
    [][StructActionReturns =>
          /\ Len(hist'.ret) = 0 =>
                /\ ctx'.Result = ctx.Result
                /\ env.errCount = 0 => ctx'.Result = NilValue
          /\ Len(hist'.ret) = 1 => ctx'.Result = hist'.ret[1]
          /\ (Len(hist'.ret) = 2 /\ hist'.ret[1].type = "int") =>
                ctx'.Result = [type |-> "StatusResult", Code |-> hist'.ret[1].v,
                               Result |-> hist'.ret[2]]
          /\ ctx' = [ctx EXCEPT !.Result = ctx'.Result]]_vars

\* C7 witness: the action returned (404, "nope").
ReturnCapturedWitness ==
    /\ pc = "done"
    /\ hist.ret = <<[type |-> "int", v |-> 404], [type |-> "string", v |-> "nope"]>>
    /\ ctx.Result = [type |-> "StatusResult", Code |-> 404,
                     Result |-> [type |-> "string", v |-> "nope"]]

MatchOf(c) == Match(removeStick(c.req.path), c.req.method)

\* Nothing in the context c or returned by it comes from another request:
\* e, lc, h and p are env, lastCall, hist and pc.
OwnRequestOnly(c, e, lc, h, p) ==
    /\ c.matched => c.route = MatchOf(c).route /\ c.params = MatchOf(c).params
    /\ (~c.matched /\ p # "panicked") =>
          Resolution(c) = <<NilRoute, <<>>, NilValue, NilSlice>>
    /\ c.action # NilValue => c.action.route = MatchOf(c).route
    /\ lc.op = "Route" => lc.value = MatchOf(c).route
    /\ lc.op = "Params" => lc.value = MatchOf(c).params
    /\ (lc.op = "Action" /\ lc.value # NilValue) => lc.value.route = MatchOf(c).route
    /\ c.Result # NilValue => (e.errCount > 0 \/ h.ret # <<>>)
    /\ p = "reset" => c.idx = 0 /\ c.stage = 0

\* C8: reset leaves route nil, params and callArgs empty, action nil,
\* matched false, stage 0, idx 0 and Result nil, and no step changes tan;
\* in the request that follows, route, params and action are those of its
\* own path and method and Result is one produced during it.
ResetClears ==
    [][/\ (pc \in {"idle", "done"} /\ pc' = "reset") =>
             /\ Resolution(ctx') = <<NilRoute, <<>>, NilValue, NilSlice>>
             /\ ~ctx'.matched /\ ctx'.stage = 0 /\ ctx'.idx = 0
             /\ ctx'.Result = NilValue
       /\ ctx'.tan = ctx.tan
       /\ OwnRequestOnly(ctx', env', lastCall', hist', pc')]_vars

\* C8 witness: a context that held a route, params, an action, stage 1,
\* idx > 0 and a Result has been reset for a request of another path.
ResetClearsWitness ==
    /\ hist.reused /\ pc = "reset"
    /\ ctx.req.path = <<"/", "z">> /\ ctx.route = NilRoute /\ ctx.Result = NilValue

\* C9: between resets stage changes only from 0 to 1, idx is set to 0 in
\* that step, and in every other step idx stays or grows by one, the
\* latter only in a call of Next.
StageForward ==
    [][pc' # "reset" =>
          /\ ctx'.stage # ctx.stage =>
                /\ ctx.stage = 0 /\ ctx'.stage = 1
                /\ ctx'.idx = 0
          /\ ctx'.stage = ctx.stage => ctx'.idx \in {ctx.idx, ctx.idx + 1}
          /\ ctx'.idx = ctx.idx + 1 => nexts' = nexts + 1]_vars

\* C9 witness: idx grew in stage 0, was set to 0 and grew again in stage 1.
StageForwardWitness ==
    /\ ctx.stage = 1 /\ ctx.idx = 2 /\ NGlobal = 1 /\ hist.execs = 2

\* The Result the last abort call of a handler has to leave.
Expected(call) ==
    CASE call.op = "Abort" ->
            [type |-> "Abort", Code |-> call.args[1], Content |-> call.args[2]]
      [] call.op = "NotFound" ->
            [type |-> "Abort", Code |-> 404,
             Content |-> IF call.args = <<>> THEN "Not Found" ELSE call.args[1]]
      [] call.op = "Unauthorized" ->
            [type |-> "Abort", Code |-> 401, Content |-> "Unauthorized"]

\* C10: every call of Abort, NotFound or Unauthorized by a middleware or
\* the action, and the not-found branch of execute, runs the error handler
\* exactly once, and what the error handler finds in Result is the Abort
\* with the status and message of that call, which Result is after it.
AbortReachesHandler ==
    [][/\ (pc = "handler" /\ hist'.aborts # hist.aborts) =>
             /\ hist'.aborts = hist.aborts + 1
             /\ env'.errCount = env.errCount + 1
             /\ env'.errSeen = Expected(lastCall')
             /\ ctx'.Result = Expected(lastCall')
       /\ (pc = "execute" /\ ~Written(ctx) /\ OwnMatch.route = NilRoute) =>
             /\ env'.errCount = env.errCount + 1
             /\ env'.errSeen = Abort404
             /\ ctx'.Result = Abort404
       /\ (pc' # "reset" /\ env'.errCount # env.errCount) =>
             /\ env'.errCount = env.errCount + 1
             /\ env'.errSeen.type = "Abort"
             /\ ctx'.Result = env'.errSeen
             /\ pc = "handler" => hist'.aborts = hist.aborts + 1]_vars

\* C10 witness: the action called NotFound("gone") after an earlier abort.
AbortReachesWitness ==
    /\ pc = "handler" /\ Top.kind = "action"
    /\ lastCall.op = "NotFound" /\ lastCall.args = <<"gone">>
    /\ env.errCount = 2
    /\ env.errSeen = [type |-> "Abort", Code |-> 404, Content |-> "gone"]
    /\ ctx.Result = env.errSeen

\* C11: once Abort has run during a request (the error handler has been
\* called), Result stays the Abort the error handler saw: no value the
\* action returns afterwards replaces it as the outcome of the request.
AbortOutlivesReturn ==
    (InRequest /\ env.errCount >= 1) => ctx.Result = env.errSeen

\* The route kind of the resolved route.
Kind == Routes[ctx.route].routeType

\* C12: the call arguments of a matched route follow from its kind alone.
\* The struct kind that takes its receiver by value (StructPtrRoute in the
\* switch) gets the new instance dereferenced, the one that takes a pointer
\* (StructRoute) gets the reference to it; a FuncRoute gets the empty,
\* non-nil list; a FuncHttpRoute the response and then the request; a
\* FuncReqRoute the request; a FuncResponseRoute the response; a
\* FuncCtxRoute the context.  The instance is ctx.action, the request the
\* one the context was reset with.
CallArgsByKind ==
    (InRequest /\ ctx.matched /\ ctx.route # NilRoute) =>
        /\ Kind \in SupportedTypes
        /\ ~ctx.callArgs.isNil
        /\ Kind = "StructPtrRoute" =>
              ctx.callArgs.elems = <<[value |-> "Elem", of |-> ctx.action]>>
        /\ Kind = "StructRoute" =>
              ctx.callArgs.elems = <<[value |-> "Value", of |-> ctx.action]>>
        /\ Kind = "FuncRoute" => ctx.callArgs.elems = <<>>
        /\ Kind = "FuncHttpRoute" =>
              /\ Len(ctx.callArgs.elems) = 2
              /\ ctx.callArgs.elems[1] = [value |-> "ResponseWriter"]
              /\ ctx.callArgs.elems[2] = [value |-> "Request", of |-> ctx.req]
        /\ Kind = "FuncReqRoute" =>
              ctx.callArgs.elems = <<[value |-> "Request", of |-> ctx.req]>>
        /\ Kind = "FuncResponseRoute" =>
              ctx.callArgs.elems = <<[value |-> "ResponseWriter"]>>
        /\ Kind = "FuncCtxRoute" => ctx.callArgs.elems = <<[value |-> "Context"]>>

\* C12 witness: a request resolved to the function(response, request)
\* route has run to its end.
CallArgsWitness ==
    /\ pc = "done" /\ ctx.matched /\ ctx.route # NilRoute
    /\ Routes[ctx.route].routeType = "FuncHttpRoute"
    /\ Len(log) >= 1 /\ log[Len(log)].kind = "action"

\* The request of the context matches a route of none of the seven kinds.
UnknownKind ==
    /\ OwnMatch.route # NilRoute
    /\ Routes[OwnMatch.route].routeType \notin SupportedTypes

\* C13: in a request whose route has a routeType outside the seven kinds,
\* resolution panics: once tan.Match has been called the request is in the
\* panicked state, with no call arguments built and matched still false;
\* neither a route-local handler nor the action is ever invoked, and the
\* error handler has run only for the abort calls the handlers made
\* themselves, never for the resolution.
UnknownKindPanics ==
    UnknownKind =>
        /\ env.matchCalls >= 1 <=> pc = "panicked"
        /\ ctx.callArgs = NilSlice
        /\ ~ctx.matched
        /\ \A k \in 1..Len(log) : log[k].kind = "global"
        /\ env.errCount = hist.aborts
        /\ ctx.Result # NilValue => ctx.Result = env.errSeen

\* C13 witness: a global handler aborted and called Next, the second one
\* called Next, and execute panicked in its resolution.
UnknownKindWitness ==
    /\ pc = "panicked" /\ UnknownKind
    /\ NGlobal = 2 /\ hist.execs = 1 /\ hist.aborts = 1 /\ env.errCount = 1

\* The handler entered last in the next state is the one of the given kind
\* and index, entered on top of the handlers suspended now.
Enters(kind, i) ==
    /\ pc' = "handler"
    /\ Len(stack') = Len(stack) + 1
    /\ stack'[Len(stack')].kind = kind /\ stack'[Len(stack')].i = i
    /\ Len(log') = Len(log) + 1
    /\ log'[Len(log')].kind = kind /\ log'[Len(log')].i = i

\* C14: Abort leaves the chain where it is: a call of Abort, NotFound or
\* Unauthorized by a handler changes neither idx nor stage nor which
\* handler is running; a call of Next after the error handler has run
\* still enters the next link of the stage or, the links exhausted,
\* execute; and execute then still enters the route's own handlers or the
\* action.
AbortDoesNotHalt ==
    [][/\ (pc = "handler" /\ hist'.aborts # hist.aborts) =>
             /\ ctx'.idx = ctx.idx /\ ctx'.stage = ctx.stage
             /\ pc' = "handler" /\ Len(stack') = Len(stack) /\ log' = log
       /\ (pc = "handler" /\ nexts' = nexts + 1 /\ env.errCount >= 1) =>
             /\ ctx'.idx = ctx.idx + 1
             /\ (ctx.stage = 0 /\ ctx.idx + 1 < NGlobal) => Enters("global", ctx.idx + 1)
             /\ (ctx.stage = 0 /\ ctx.idx + 1 >= NGlobal) => pc' = "execute"
             /\ (ctx.stage = 1 /\ ctx.idx + 1 < NLocal) => Enters("local", ctx.idx + 1)
             /\ (ctx.stage = 1 /\ ctx.idx + 1 >= NLocal) => pc' = "execute"
       /\ (pc = "execute" /\ env.errCount >= 1
             /\ OwnMatch.route # NilRoute /\ ~UnknownKind) =>
             IF Len(Routes[OwnMatch.route].handlers) > 0 /\ ctx.stage = 0
             THEN Enters("local", 0)
             ELSE Enters("action", 0)]_vars

\* C14 witness: the first global handler aborted and called Next, the
\* second called Next, and the action is running.
AbortThenNextWitness ==
    /\ pc = "handler" /\ Len(stack) = 3
    /\ stack[1].kind = "global" /\ stack[1].aborted /\ stack[1].nexts = 1
    /\ stack[2].kind = "global" /\ stack[3].kind = "action"
    /\ hist.aborts = 1 /\ env.errCount = 1

\* The action running is one execute calls directly.
DirectActionRuns ==
    /\ pc = "handler" /\ Top.kind = "action"
    /\ Routes[ctx.route].raw \in DirectCallable

\* C15: while an action of a direct-callable shape runs, Result changes
\* only in a step in which the action itself calls Abort, NotFound or
\* Unauthorized, and the step in which it returns changes nothing of the
\* context: execute captures nothing.  A func() action has the empty call
\* argument list and no step of it changes Result, which is nil if nothing
\* was aborted before it ran.
DirectNoCapture ==
    [][DirectActionRuns =>
          /\ hist'.aborts = hist.aborts => ctx'.Result = ctx.Result
          /\ (Len(stack') = Len(stack) - 1 /\ pc' # "panicked") =>
                ctx' = ctx /\ hist'.ret = <<>>
          /\ Routes[ctx.route].raw = "func()" =>
                /\ ctx.callArgs = Slice(<<>>)
                /\ ctx'.Result = ctx.Result
                /\ env.errCount = 0 => ctx'.Result = NilValue]_vars

\* C15 witness: the request for "/f/", normalized to "/f", has run the
\* func() route to its end with Result nil.
DirectNoCaptureWitness ==
    /\ pc = "done" /\ ctx.req.path = <<"/", "f", "/">>
    /\ ctx.route # NilRoute /\ Routes[ctx.route].raw = "func()"
    /\ Len(log) = 3 /\ log[3].kind = "action"
    /\ ctx.callArgs = Slice(<<>>) /\ ctx.Result = NilValue

\* What the action returned in the step is none of the shapes execute
\* captures: two values the first of which is not an int, or three or more.
OtherShape(ret) ==
    \/ Len(ret) >= 3
    \/ Len(ret) = 2 /\ ret[1].type # "int"

\* C16: when the method of a struct or struct-pointer action returns two
\* values the first of which is not an int, or three or more values,
\* execute stores none of them: Result and the rest of the context are as
\* they were before the return.
OtherShapesDropped ==
    [][(StructActionReturns /\ OtherShape(hist'.ret)) => ctx' = ctx]_vars

\* C16 witness: the action called Abort(401, "x") and returned two strings;
\* the request is over and Result is still the Abort.
OtherShapesWitness ==
    /\ pc = "done" /\ Len(hist.ret) = 2 /\ hist.ret[1].type = "string"
    /\ hist.aborts = 1 /\ ctx.Result = Abort401x

\* C17: stage is 0 or 1, and in every state with stage = 1 the resolution
\* is complete and found a route: matched is true, route and action are
\* not nil and the route has at least one handler of its own, so neither
\* invoke nor Next dereferences a nil route; a panic comes from the
\* resolution of a route of an unknown kind in stage 0 and from nowhere
\* else.
StageOneResolved ==
    /\ ctx.stage \in {0, 1}
    /\ ctx.stage = 1 =>
          /\ ctx.matched /\ ctx.route # NilRoute /\ ctx.action # NilValue
          /\ Len(Routes[ctx.route].handlers) >= 1
          /\ invoke(ctx) # GoPanic
          /\ CtxNext(ctx).ctl # GoPanic
    /\ pc = "panicked" => ctx.stage = 0 /\ UnknownKind

\* C17 witness: invoke has run in stage 1 twice: the second of the route's
\* own handlers is running.
StageOneWitness ==
    /\ ctx.stage = 1 /\ pc = "handler"
    /\ Top.kind = "local" /\ Top.i = 1 /\ ctx.idx = 1

\* Two contexts are being served and the scheduler did not switch in the
\* step.
SameRunner == peer.me # 0 /\ peer'.me = peer.me

\* What holds of a context c served alone, e its env and h its hist: one
\* resolution at most, and the error handler run for the aborts of its
\* own handlers and at most once more, for its own not-found.
AsAlone(c, e, h) ==
    /\ e.matchCalls <= 1
    /\ c.matched <=> e.matchCalls = 1
    /\ e.errCount - h.aborts \in {0, 1}
    /\ e.errCount - h.aborts = 1 => MatchOf(c).route = NilRoute
    /\ c.stage = 1 => c.route # NilRoute /\ c.action # NilValue

\* The context and the suspended one are each as a request served alone
\* leaves them, on the one dispatcher.
EachAsAlone ==
    /\ peer.ctx.tan = ctx.tan
    /\ OwnRequestOnly(ctx, env, lastCall, hist, pc)
    /\ OwnRequestOnly(peer.ctx, peer.env, peer.lastCall, peer.hist, peer.pc)
    /\ AsAlone(ctx, env, hist)
    /\ AsAlone(peer.ctx, peer.env, peer.hist)

\* C18: with two requests served at once on two contexts, a step of one
\* context (reset, Route(), Abort, Next, invoke, execute, the return of a
\* handler) changes nothing of the other context and nothing of the
\* dispatcher they share; the context resumed at a switch is as it was
\* suspended; and in every interleaving each context has the route,
\* params, action and Result of its own request and the counts of a
\* request served alone.
TwoIndependent ==
    /\ []EachAsAlone
    /\ [][/\ ctx'.tan = ctx.tan
          /\ SameRunner => peer' = peer
          /\ (peer.me # 0 /\ peer'.me # peer.me) =>
                /\ <<ctx', env', pc', stack', log', calls', nexts', lastCall', hist'>>
                     = <<peer.ctx, peer.env, peer.pc, peer.stack, peer.log, peer.calls,
                         peer.nexts, peer.lastCall, peer.hist>>
                /\ peer' = Suspended(3 - peer.me)]_vars

\* C18 witness: both requests are under way: the running context is in the
\* action of "/s" after its route's handler, the other one, reset for
\* "/z", is suspended in the global handler after Route() returned nil.
TwoRunningWitness ==
    /\ peer.me # 0
    /\ pc = "handler" /\ Top.kind = "action" /\ ctx.stage = 1
    /\ ctx.req.path = <<"/", "s">>
    /\ peer.pc = "handler" /\ peer.ctx.req.path = <<"/", "z">>
    /\ peer.lastCall.op = "Route" /\ peer.lastCall.value = NilRoute
    /\ peer.ctx.stage = 0 /\ peer.ctx.idx = 0

\* Every handler has called Next at most once and the action never has.
NextAtMostOnce == ~hist.renext /\ hist.anext = 0

\* The route-local handlers of the route the request matches.
OwnLocal ==
    IF OwnMatch.route = NilRoute THEN 0 ELSE Len(Routes[OwnMatch.route].handlers)

\* The number of invocations of the action the log holds.
Actions == Cardinality({k \in 1..Len(log) : log[k].kind = "action"})

\* C19: as long as every handler has called Next at most once and the
\* action has not called it, no handler and no action has been invoked
\* twice, Next has been called at most once per link of the chain and
\* execute has been entered at most twice, so the chain ends after at
\* most NGlobal + NLocal + 1 invocations; and when the request is over and
\* each link has called Next (exactly once), the action has been invoked
\* exactly once if a route matched, and the not-found abort has been raised
\* exactly once if none matched and nothing had been written.
ChainOnce ==
    NextAtMostOnce =>
        /\ \A j, k \in 1..Len(log) :
              (log[j].kind = log[k].kind /\ log[j].i = log[k].i) => j = k
        /\ Actions <= 1
        /\ nexts <= NGlobal + NLocal
        /\ hist.execs <= 2
        /\ (pc = "done" /\ nexts = NGlobal + OwnLocal) =>
              /\ OwnMatch.route # NilRoute => Actions = 1
              /\ (OwnMatch.route = NilRoute /\ hist.firstExec = "unwritten") =>
                    env.errCount - hist.aborts = 1
              /\ (OwnMatch.route = NilRoute /\ hist.firstExec = "written") =>
                    env.errCount - hist.aborts = 0

\* C19 witness: two global handlers and the route's handler have each
\* called Next once, the action ran, and the request is over.
ChainOnceWitness ==
    /\ pc = "done" /\ NextAtMostOnce
    /\ NGlobal = 2 /\ NLocal = 1 /\ nexts = 3
    /\ Len(log) = 4 /\ log[4].kind = "action"

\* C20: a call of Next by the action puts idx beyond the end of the
\* handlers of the stage and goes to execute with the action suspended,
\* and that pass through execute changes nothing of the context and
\* invokes the same action again, one level deeper; so, no handler having
\* called Next twice, the action has been invoked once more than it has
\* called Next, and a request is over only if the action invoked last
\* returned without calling Next.
ActionNextReenters ==
    /\ [](/\ (~hist.renext /\ Actions >= 1 /\ pc \in {"handler", "done"}) =>
                Actions = hist.anext + 1
          /\ (~hist.renext /\ Actions >= 1 /\ pc = "execute") => Actions = hist.anext
          /\ (pc = "handler" /\ Top.kind = "action" /\ Top.nexts = 0) =>
                \A k \in 1..(Len(stack) - 1) :
                    stack[k].kind = "action" => stack[k].nexts >= 1)
    /\ [][/\ (pc = "handler" /\ Top.kind = "action" /\ nexts' = nexts + 1) =>
                /\ ctx'.idx = ctx.idx + 1
                /\ ctx'.idx > (IF ctx.stage = 0 THEN NGlobal ELSE NLocal)
                /\ pc' = "execute"
                /\ stack' = [stack EXCEPT ![Len(stack)].nexts = @ + 1]
          /\ (pc = "execute" /\ stack # <<>> /\ Top.kind = "action") =>
                /\ Enters("action", 0)
                /\ ctx' = ctx
                /\ env' = env]_vars

\* C20 witness: the action called Next in its first two invocations, the
\* third returned without, and the request is over.
ActionNextWitness ==
    /\ pc = "done" /\ ~hist.renext /\ hist.anext = 2 /\ Actions = 3
    /\ ctx.route # NilRoute /\ nexts = NGlobal + NLocal + 2

====
